---- MODULE Spec2Model ----
(***************************************************************************)
(* QDefEd: the Quake .def entity-definition codec (QuakeEntity) and the    *)
(* editor state that holds the decoded entities (EntityEditorApp).         *)
(*                                                                         *)
(* A Python str is modelled as a sequence of one-character strings, so     *)
(* that tokenising, stripping and matching work on characters as the       *)
(* regular expressions of the source do.                                   *)
(***************************************************************************)
EXTENDS Integers, Sequences, FiniteSets, TLC

VARIABLES
    pc,          \* the step of the pipeline that has run; "running" in the editor
    def_block,   \* text handed to QuakeEntity.from_def_string
    entity,      \* the QuakeEntity decoded (or constructed), None before/failed
    def_string,  \* text returned by entity.to_def_string()
    reparsed,    \* from_def_string(def_string)
    layout,      \* how the text of a file is laid out: junk, block, junk, ...
    content,     \* the text of the file that _open_file reads
    blocks,      \* the list `blocks` of _open_file
    entities,    \* EntityEditorApp.entities
    current_file_path,       \* EntityEditorApp.current_file_path
    unsaved_changes,         \* EntityEditorApp.unsaved_changes
    selected_entity_index,   \* EntityEditorApp.selected_entity_index
    curselection,            \* the selection of entity_listbox
    flags_listbox,           \* the items of flags_listbox
    messagebox,              \* title of the last message box of a handler
    disk,                    \* the files: path -> text, or Rewritten
    baseline                 \* <<entities>> as of the last new-file, successful open
                             \* or successful save; None where it is not followed

codec_vars == <<def_block, entity, def_string, reparsed>>
file_vars == <<layout, content, blocks>>
app_vars == <<current_file_path, unsaved_changes, selected_entity_index,
              curselection, flags_listbox, messagebox, disk, baseline>>

vars == <<pc, codec_vars, file_vars, entities, app_vars>>

----------------------------------------------------------------------------
(* Python values *)

None == <<>>                       \* Python None (never a legal list here)
IndexError == <<"IndexError">>     \* to_def_string raising on rgb[k]
NotRun == <<"NotRun">>             \* a pipeline step that has not run yet
NoIndex == 0                       \* None as an index; Python index k is k + 1
Rewritten == <<"Rewritten">>       \* a file this session wrote: text not followed

Whitespace == {" ", "\n"}          \* \s and str.strip() over the alphabet
Parens == {"(", ")"}               \* the argument of strip('()')
DigitChars == <<"0", "1", "2", "3", "4", "5", "6", "7", "8", "9">>
DigitSet == {DigitChars[k] : k \in 1..10}
DigitVal(c) == (CHOOSE k \in 1..10 : DigitChars[k] = c) - 1

----------------------------------------------------------------------------
(* str helpers *)

\* least / greatest element of a set of positions, 0 for the empty set
FirstIndex(S) == IF S = {} THEN 0 ELSE CHOOSE k \in S : \A j \in S : k <= j
LastIndex(S) == IF S = {} THEN 0 ELSE CHOOSE k \in S : \A j \in S : k >= j

LStrip(s, cs) ==
    LET k == FirstIndex({j \in 1..Len(s) : s[j] \notin cs}) IN
    IF k = 0 THEN <<>> ELSE SubSeq(s, k, Len(s))

RStrip(s, cs) ==
    SubSeq(s, 1, LastIndex({j \in 1..Len(s) : s[j] \notin cs}))

\* str.strip(chars)
StripChars(s, cs) == RStrip(LStrip(s, cs), cs)

\* str.strip()
Strip(s) == StripChars(s, Whitespace)

\* first index k >= from with s[k] \in cs, or 0
IndexIn(s, cs, from) == FirstIndex({k \in from..Len(s) : s[k] \in cs})

\* str.find(c) for a single character, 1-based; 0 where Python gives -1
Find(s, c) == IndexIn(s, {c}, 1)

\* length of the maximal leading run of non-whitespace (\S+ at the head)
NonSpaceRun(s) ==
    LET k == IndexIn(s, Whitespace, 1) IN IF k = 0 THEN Len(s) ELSE k - 1

\* str.split() with no argument
RECURSIVE Split(_)
Split(s) ==
    LET t == LStrip(s, Whitespace) IN
    IF t = <<>> THEN <<>>
    ELSE LET n == NonSpaceRun(t) IN
         <<SubSeq(t, 1, n)>> \o Split(SubSeq(t, n + 1, Len(t)))

\* sep.join(parts)
RECURSIVE Join(_, _)
Join(parts, sep) ==
    IF parts = <<>> THEN <<>>
    ELSE IF Len(parts) = 1 THEN parts[1]
    ELSE parts[1] \o sep \o Join(Tail(parts), sep)

\* does pattern p occur in t at position i
StartsAt(t, i, p) ==
    /\ i >= 1
    /\ i + Len(p) - 1 <= Len(t)
    /\ \A k \in 1..Len(p) : t[i + k - 1] = p[k]

\* first position >= from where p occurs in t, or 0
IndexOf(t, p, from) == FirstIndex({k \in from..Len(t) : StartsAt(t, k, p)})

----------------------------------------------------------------------------
(* numbers: int() / float() and their formatting *)

IsDigits(s) == s # <<>> /\ \A k \in 1..Len(s) : s[k] \in DigitSet

RECURSIVE DigitsValue(_)
DigitsValue(s) ==
    IF s = <<>> THEN 0
    ELSE 10 * DigitsValue(SubSeq(s, 1, Len(s) - 1)) + DigitVal(s[Len(s)])

\* a leading sign as int() and float() accept it
Unsigned(s) == IF s # <<>> /\ Head(s) \in {"-", "+"} THEN Tail(s) ELSE s
IsNegative(s) == s # <<>> /\ Head(s) = "-"

\* int(x) succeeds (the alphabet has no "_" and no inner whitespace)
IsIntLiteral(s) == IsDigits(Unsigned(s))
IntValue(s) ==
    IF IsNegative(s) THEN 0 - DigitsValue(Unsigned(s)) ELSE DigitsValue(Unsigned(s))

\* the component shape [-]?\d+ of the bounding-box regular expression
IsBBoxNumber(s) == IsDigits(IF IsNegative(s) THEN Tail(s) ELSE s)

\* float(x) succeeds: digits with an optional fraction, or a bare fraction
\* (the alphabet has no exponent letter, "_", "inf" or "nan")
IsFloatLiteral(s) ==
    LET u == Unsigned(s)
        dot == Find(u, ".")
        ip == IF dot = 0 THEN u ELSE SubSeq(u, 1, dot - 1)
        fp == IF dot = 0 THEN <<>> ELSE SubSeq(u, dot + 1, Len(u))
    IN  /\ ip = <<>> \/ IsDigits(ip)
        /\ fp = <<>> \/ IsDigits(fp)
        /\ ip # <<>> \/ fp # <<>>

RECURSIVE Pow10(_)
Pow10(n) == IF n = 0 THEN 1 ELSE 10 * Pow10(n - 1)

\* A float is <<m, e>>, standing for m / 10^e with the trailing zeros of the
\* fraction removed, so that equal numbers are equal values (1 = 1.0, and
\* -0.0 == 0.0 as in Python).
RECURSIVE Normal(_, _)
Normal(m, e) ==
    IF e > 0 /\ m % 10 = 0 THEN Normal(m \div 10, e - 1) ELSE <<m, e>>

FloatValue(s) ==
    LET u == Unsigned(s)
        dot == Find(u, ".")
        ip == IF dot = 0 THEN u ELSE SubSeq(u, 1, dot - 1)
        fp == IF dot = 0 THEN <<>> ELSE SubSeq(u, dot + 1, Len(u))
        mag == DigitsValue(ip) * Pow10(Len(fp)) + DigitsValue(fp)
    IN  Normal(IF IsNegative(s) THEN 0 - mag ELSE mag, Len(fp))

\* decimal digits of n >= 0
RECURSIVE NatStr(_)
NatStr(n) ==
    IF n < 10 THEN <<DigitChars[n + 1]>>
    ELSE NatStr(n \div 10) \o <<DigitChars[(n % 10) + 1]>>

\* f"{n}" for an int
IntStr(n) == IF n < 0 THEN <<"-">> \o NatStr(0 - n) ELSE NatStr(n)

\* |v| rounded to tenths.  A fraction of exactly one half of a tenth is a tie
\* only for the binary-exact x.25 and x.75, which round half to even; the
\* other x.x5 values are not binary-exact and round by their nearest double,
\* and are not among the values the model draws.
Tenths(v) ==
    LET a == IF v[1] < 0 THEN 0 - v[1] ELSE v[1]
        e == v[2]
    IN  IF e = 0 THEN 10 * a
        ELSE IF e = 1 THEN a
        ELSE LET unit == Pow10(e - 1)
                 q == a \div unit
                 r == a % unit
             IN  IF 2 * r > unit THEN q + 1
                 ELSE IF 2 * r < unit THEN q
                 ELSE IF q % 2 = 0 THEN q ELSE q + 1

\* f"{v:.1f}": exactly one digit after the point; a negative value keeps its
\* sign even when it rounds to zero
FloatStr1(v) ==
    LET t == Tenths(v) IN
    (IF v[1] < 0 THEN <<"-">> ELSE <<>>)
        \o NatStr(t \div 10) \o <<".">> \o <<DigitChars[(t % 10) + 1]>>

----------------------------------------------------------------------------
(* class QuakeEntity *)

DefaultRgb == <<FloatValue(<<"0", ".", "8">>), FloatValue(<<"0", ".", "1">>),
                FloatValue(<<"0", ".", "8">>)>>

\* QuakeEntity.__init__
QuakeEntity(name, rgb, bbox_min, bbox_max, flags, info) ==
    [name |-> name, rgb |-> rgb, bbox_min |-> bbox_min, bbox_max |-> bbox_max,
     flags |-> flags, info |-> info]

Quaked == <<"/", "*", "Q", "U", "A", "K", "E", "D">>
CloseMarker == <<"*", "/">>
Sp == <<" ">>
Nl == <<"\n">>

\* "(x y z)" of three already formatted components
Triple(a, b, c) == <<"(">> \o a \o Sp \o b \o Sp \o c \o <<")">>

\* (mutant) a one-sided box renders the corner it has
BBoxStr_OneSided(bbox_min, bbox_max) ==
    IF bbox_min # None /\ bbox_max # None
    THEN Triple(IntStr(bbox_min[1]), IntStr(bbox_min[2]), IntStr(bbox_min[3]))
         \o Sp
         \o Triple(IntStr(bbox_max[1]), IntStr(bbox_max[2]), IntStr(bbox_max[3]))
    ELSE IF bbox_min # None
    THEN Triple(IntStr(bbox_min[1]), IntStr(bbox_min[2]), IntStr(bbox_min[3]))
         \o Sp \o <<"?">>
    ELSE <<"?">>

\* the bounding-box field of the header line
BBoxStr(bbox_min, bbox_max) ==
    IF bbox_min # None /\ bbox_max # None
    THEN Triple(IntStr(bbox_min[1]), IntStr(bbox_min[2]), IntStr(bbox_min[3]))
         \o Sp
         \o Triple(IntStr(bbox_max[1]), IntStr(bbox_max[2]), IntStr(bbox_max[3]))
    ELSE IF bbox_min = None /\ bbox_max = None
    THEN <<"?">>
    ELSE <<"?">>

\* QuakeEntity.to_def_string; self.rgb[k] raises IndexError on a short list
to_def_string(self) ==
    IF Len(self.rgb) < 3 THEN IndexError
    ELSE
    LET rgb_str == Triple(FloatStr1(self.rgb[1]), FloatStr1(self.rgb[2]),
                          FloatStr1(self.rgb[3]))
        bbox_str_combined == BBoxStr(self.bbox_min, self.bbox_max)
        flags_str == Join(self.flags, Sp)
        first_line_parts ==
            <<self.name, rgb_str, bbox_str_combined>>
                \o (IF flags_str # <<>> THEN <<flags_str>> ELSE <<>>)
        first_line == Join(first_line_parts, Sp)
        info_formatted == Strip(self.info)
    IN  Quaked \o Sp \o first_line \o Nl \o info_formatted \o Nl \o CloseMarker

\* One match of r'/\*QUAKED\s+(.*?)\s*\*/' (DOTALL) starting exactly at s:
\* the index of the "*" of the close marker that ends it, or 0.  \s+ needs a
\* whitespace right after the keyword, and the lazy group ends at the first
\* close marker after it.
MatchClose(t, s) ==
    IF /\ StartsAt(t, s, Quaked)
       /\ s + Len(Quaked) <= Len(t)
       /\ t[s + Len(Quaked)] \in Whitespace
    THEN IndexOf(t, CloseMarker, s + Len(Quaked) + 1)
    ELSE 0

\* group(1) of the match at s closed at q: greedy \s+ and trailing \s* leave
\* the text between keyword and close marker without its outer whitespace
Group1(t, s, q) == Strip(SubSeq(t, s + Len(Quaked), q - 1))

\* (mutant) the match starts at the open marker nearest to its close marker
MatchStart_Nearest(t, from) ==
    LET s == FirstIndex({r \in from..Len(t) : MatchClose(t, r) # 0}) IN
    IF s = 0 THEN 0
    ELSE LastIndex({r \in s..Len(t) : MatchClose(t, r) = MatchClose(t, s)})

\* leftmost position >= from where the expression matches, or 0
MatchStart(t, from) == FirstIndex({s \in from..Len(t) : MatchClose(t, s) # 0})

\* (mutant) the scan resumes on the last character of a match
RECURSIVE FindAllSpans_Overlap(_, _)
FindAllSpans_Overlap(t, from) ==
    LET s == MatchStart(t, from) IN
    IF s = 0 THEN <<>>
    ELSE LET q == MatchClose(t, s) IN
         << <<s, q>> >> \o FindAllSpans_Overlap(t, q + Len(CloseMarker) - 1)

\* the matches of re.findall(r'/\*QUAKED\s+(.*?)\s*\*/', content, re.DOTALL)
\* from position `from` on: <<start, close>> of each, left to right, each
\* scan resuming after the close marker of the match before
RECURSIVE FindAllSpans(_, _)
FindAllSpans(t, from) ==
    LET s == MatchStart(t, from) IN
    IF s = 0 THEN <<>>
    ELSE LET q == MatchClose(t, s) IN
         << <<s, q>> >> \o FindAllSpans(t, q + Len(CloseMarker))

\* what findall returns: group(1) of every match
FindAllBlocks(t) ==
    LET spans == FindAllSpans(t, 1) IN
    [k \in 1..Len(spans) |-> Group1(t, spans[k][1], spans[k][2])]

\* (mutant) the header line split on whitespace alone
FindAllParts_Split(s) == Split(s)

\* re.findall(r'(\([^\)]*\)|\S+)', first_line): a group from "(" to the first
\* ")" is one part, otherwise a maximal run of non-whitespace is
RECURSIVE FindAllParts(_)
FindAllParts(s) ==
    IF s = <<>> THEN <<>>
    ELSE IF Head(s) \in Whitespace THEN FindAllParts(LStrip(s, Whitespace))
    ELSE LET close == Find(s, ")")
             n == IF Head(s) = "(" /\ close # 0 THEN close ELSE NonSpaceRun(s)
         IN  <<SubSeq(s, 1, n)>> \o FindAllParts(SubSeq(s, n + 1, Len(s)))

\* part.strip('()').split()
Components(part) == Split(StripChars(part, Parens))

\* re.match(r'^\(\s*\S+\s+\S+\s+\S+\s*\)$', part): first and last character
\* are the parentheses and what lies between splits into three runs
RgbShape(part) ==
    /\ Len(part) >= 2
    /\ part[1] = "("
    /\ part[Len(part)] = ")"
    /\ Len(Split(SubSeq(part, 2, Len(part) - 1))) = 3

\* re.match(r'^\(\s*[-]?\d+\s+[-]?\d+\s+[-]?\d+\s*\)$', part)
BBoxShape(part) ==
    /\ Len(part) >= 2
    /\ part[1] = "("
    /\ part[Len(part)] = ")"
    /\ LET inner == Split(SubSeq(part, 2, Len(part) - 1)) IN
       Len(inner) = 3 /\ \A k \in 1..3 : IsBBoxNumber(inner[k])

\* the float()/int() conversions of a list comprehension all succeed
AllFloats(comps) == \A k \in 1..Len(comps) : IsFloatLiteral(comps[k])
AllInts(comps) == \A k \in 1..Len(comps) : IsIntLiteral(comps[k])
Floats(comps) == [k \in 1..Len(comps) |-> FloatValue(comps[k])]
Ints(comps) == [k \in 1..Len(comps) |-> IntValue(comps[k])]

\* step 1 of from_def_string: is parts[1] (Python index) taken as the color
RgbParsed(parts) ==
    /\ 1 < Len(parts)
    /\ RgbShape(parts[2])
    /\ AllFloats(Components(parts[2]))

\* a part that the bounding-box branch parses as a triple of ints
BBoxParsed(part) == BBoxShape(part) /\ AllInts(Components(part))

\* steps 1 and 2 of from_def_string over the list of parts: the fields, the
\* index i (Python, 0-based) reached, and the set parsed_components
ParseHeader(parts) ==
    LET isrgb == RgbParsed(parts)
        i1 == IF isrgb THEN 2 ELSE 1
        has == i1 < Len(parts)
        cand == IF has THEN parts[i1 + 1] ELSE <<>>
        isq == has /\ cand = <<"?">>
        ismin == has /\ ~isq /\ BBoxParsed(cand)
        ismax == ismin /\ i1 + 1 < Len(parts) /\ BBoxParsed(parts[i1 + 2])
    IN  [rgb |-> IF isrgb THEN Floats(Components(parts[2])) ELSE DefaultRgb,
         bbox_min |-> IF ismin THEN Ints(Components(cand)) ELSE None,
         bbox_max |-> IF ismax THEN Ints(Components(parts[i1 + 2])) ELSE None,
         i |-> IF isq THEN i1 + 1
               ELSE IF ismax THEN i1 + 2
               ELSE IF ismin THEN i1 + 1
               ELSE i1,
         parsed_components |->
               (IF isrgb THEN {parts[2]} ELSE {})
                   \cup (IF isq \/ ismin THEN {cand} ELSE {})
                   \cup (IF ismax THEN {parts[i1 + 2]} ELSE {})]

\* [flag for flag in parts[i:] if flag not in parsed_components]
RemainingFlags(parts, i, parsed_components) ==
    SelectSeq(SubSeq(parts, i + 1, Len(parts)),
              LAMBDA flag : flag \notin parsed_components)

\* the header line and the description of a matched block
BlockContent(block) ==
    LET s == MatchStart(block, 1) IN
    Strip(Group1(block, s, MatchClose(block, s)))

FirstLine(block_content) ==
    LET first_line_end == Find(block_content, "\n") IN
    IF first_line_end = 0 THEN block_content
    ELSE Strip(SubSeq(block_content, 1, first_line_end - 1))

InfoHere(block_content) ==
    LET first_line_end == Find(block_content, "\n") IN
    IF first_line_end = 0 THEN <<>>
    ELSE Strip(SubSeq(block_content, first_line_end, Len(block_content)))

\* from_def_string once the header line is tokenised: the assignment of the
\* parts to the fields
BuildEntity(parts, info_here) ==
    LET h == ParseHeader(parts) IN
    QuakeEntity(parts[1], h.rgb, h.bbox_min, h.bbox_max,
                RemainingFlags(parts, h.i, h.parsed_components), info_here)

\* (mutant) a block needs a second token to decode
DecodeParts_NeedsSecond(parts, info_here) ==
    IF Len(parts) < 2 THEN None ELSE BuildEntity(parts, info_here)

\* `if not parts: return None`, else the entity
DecodeParts(parts, info_here) ==
    IF parts = <<>> THEN None ELSE BuildEntity(parts, info_here)

\* QuakeEntity.from_def_string
from_def_string(block) ==
    IF MatchStart(block, 1) = 0 THEN None
    ELSE LET block_content == BlockContent(block) IN
         DecodeParts(FindAllParts(FirstLine(block_content)), InfoHere(block_content))

----------------------------------------------------------------------------
(* The codec pipeline: decode a block, encode the entity, decode again *)

MaxTokens == 4     \* header tokens drawn for a block
MaxFlags == 2      \* flags drawn for a constructed entity

\* header tokens a hand-edited file can hold
TokName == <<"a">>
TokAbsent == <<"?">>
TokInts == <<"(", "1", " ", "0", " ", "0", ")">>
TokNegInts == <<"(", "-", "1", " ", "0", " ", "8", ")">>
TokFloats == <<"(", "0", ".", "8", " ", "0", ".", "1", " ", "0", ".", "8", "8", ")">>
TokWords == <<"(", "a", " ", "0", " ", "0", ")">>
TokNested == <<"(", "(", " ", "1", " ", "0", ")">>
TokOpen == <<"(", "a">>
Pieces == {TokName, TokAbsent, TokInts, TokNegInts, TokFloats, TokWords,
           TokNested, TokOpen}

HeaderLines == {Join(ts, Sp) : ts \in UNION {[1..n -> Pieces] : n \in 0..MaxTokens}}
\* what follows the header line: a bare line break, or a description
Bodies == {<<"\n">>, <<"\n", "d">>}

\* f"/*QUAKED {block} */" as _open_file hands it to from_def_string
Wrap(block) == Quaked \o Sp \o block \o Sp \o CloseMarker
DefBlocks == {Wrap(h \o b) : h \in HeaderLines, b \in Bodies}

\* entities as the constructor and the mutation operations can build them
RgbTenths == <<FloatValue(<<"1">>), FloatValue(<<"0">>), FloatValue(<<"0", ".", "5">>)>>
RgbFine == <<FloatValue(<<"0", ".", "8", "8">>), FloatValue(<<"0", ".", "1">>),
             FloatValue(<<"0", ".", "8", "1">>)>>
BoxLow == <<0 - 16, 0 - 16, 0>>
BoxHigh == <<16, 16, 32>>
FlagTokens == {<<"a">>, <<"?">>, <<"(", "a">>, <<"b", ")">>}
FlagLists ==
    {fs \in UNION {[1..n -> FlagTokens] : n \in 0..MaxFlags} :
        \A j, k \in 1..Len(fs) : j # k => fs[j] # fs[k]}
Constructed ==
    {QuakeEntity(n, c, b[1], b[2], fs, d) :
        n \in {<<"a">>, <<"(", "a">>},
        c \in {DefaultRgb, RgbTenths, RgbFine},
        b \in {<<None, None>>, <<BoxLow, BoxHigh>>, <<BoxLow, None>>, <<None, BoxHigh>>},
        fs \in FlagLists,
        d \in {<<>>, <<"d">>, <<"d", "\n", "\n", "d">>, <<"d", "*", "/">>}}

Decode ==
    /\ pc = "block"
    /\ entity' = from_def_string(def_block)
    /\ pc' = "decoded"
    /\ UNCHANGED <<def_block, def_string, reparsed, file_vars, entities, app_vars>>

Encode ==
    /\ pc = "decoded"
    /\ entity # None
    /\ def_string' = to_def_string(entity)
    /\ pc' = "encoded"
    /\ UNCHANGED <<def_block, entity, reparsed, file_vars, entities, app_vars>>

Reparse ==
    /\ pc = "encoded"
    /\ def_string # IndexError
    /\ reparsed' = from_def_string(def_string)
    /\ pc' = "reparsed"
    /\ UNCHANGED <<def_block, entity, def_string, file_vars, entities, app_vars>>

\* no file is involved
NoFile ==
    /\ layout = NotRun
    /\ content = NotRun
    /\ blocks = NotRun

\* EntityEditorApp.__init__
NewApp ==
    /\ entities = <<>>
    /\ current_file_path = None
    /\ unsaved_changes = FALSE
    /\ selected_entity_index = NoIndex
    /\ curselection = NoIndex
    /\ flags_listbox = <<>>
    /\ messagebox = ""

\* the editor is not used, and no file exists
NoApp == NewApp /\ disk = <<>> /\ baseline = None

\* blocks of a file: decode, encode, decode
InitCodec ==
    /\ NoFile /\ NoApp
    /\ pc = "block"
    /\ def_block \in DefBlocks
    /\ entity = NotRun
    /\ def_string = NotRun
    /\ reparsed = NotRun

NextCodec == Decode \/ Encode \/ Reparse

SpecCodec == InitCodec /\ [][NextCodec]_vars

\* constructed entities: encode, decode
InitRecord ==
    /\ NoFile /\ NoApp
    /\ pc = "decoded"
    /\ def_block = NotRun
    /\ entity \in Constructed
    /\ def_string = NotRun
    /\ reparsed = NotRun

NextRecord == Encode \/ Reparse

SpecRecord == InitRecord /\ [][NextRecord]_vars

----------------------------------------------------------------------------
(* Reading a file: the extraction of the blocks and their decoding *)

MaxBlocks == 2     \* blocks laid out in a file

\* text around the blocks: nothing, a line and an ordinary comment, a comment
\* whose keyword is not followed by whitespace, and a text that continues the
\* "/" of a close marker before it into "/*QUAKED a */"
JunkNone == <<>>
JunkComment == <<"x", "\n", "/", "*", " ", "c", " ", "*", "/">>
JunkKeyword == <<"/", "*", "Q", "U", "A", "K", "E", "D", "x", " ", "*", "/">>
JunkTail == <<"*", "Q", "U", "A", "K", "E", "D", " ", "a", " ", "*", "/">>
JunkTexts == {JunkNone, JunkComment, JunkKeyword, JunkTail}

\* blocks: a one-line block, a block with description, an empty block, and a
\* block with a second open marker and keyword before its close marker
BlockLine == Wrap(<<"a">>)
BlockBody == Quaked \o <<"\n", "a", " ", "?", "\n", "d", "\n">> \o CloseMarker
BlockEmpty == Quaked \o <<" ", " ">> \o CloseMarker
BlockTwice == Quaked \o <<" ", "b", " ">> \o Wrap(<<"a">>)
BlockTexts == {BlockLine, BlockBody, BlockEmpty, BlockTwice}

\* junk, block, junk, ..., block, junk with n blocks
RECURSIVE LayoutsOf(_)
LayoutsOf(n) ==
    IF n = 0 THEN {<<j>> : j \in JunkTexts}
    ELSE {l \o <<b, j>> : l \in LayoutsOf(n - 1), b \in BlockTexts, j \in JunkTexts}

Layouts == UNION {LayoutsOf(n) : n \in 0..MaxBlocks}

RECURSIVE Concat(_)
Concat(texts) == IF texts = <<>> THEN <<>> ELSE Head(texts) \o Concat(Tail(texts))

\* the loop of _open_file: the entities of the blocks that decode
IsEntity(e) == e # None
DecodeAll(bs) ==
    SelectSeq([k \in 1..Len(bs) |-> from_def_string(Wrap(Strip(bs[k])))], IsEntity)

\* _open_file from the text read to the list of entities
ReadFile ==
    /\ pc = "file"
    /\ blocks' = FindAllBlocks(content)
    /\ entities' = DecodeAll(FindAllBlocks(content))
    /\ pc' = "opened"
    /\ UNCHANGED <<codec_vars, layout, content, app_vars>>

InitExtract ==
    /\ pc = "file"
    /\ layout \in Layouts
    /\ content = Concat(layout)
    /\ blocks = NotRun
    /\ NoApp
    /\ def_block = NotRun /\ entity = NotRun
    /\ def_string = NotRun /\ reparsed = NotRun

NextExtract == ReadFile

SpecExtract == InitExtract /\ [][NextExtract]_vars

----------------------------------------------------------------------------
(* The editor: EntityEditorApp's handlers over the list of entities *)

MaxEntities == 2   \* entities the list may hold when one is added

PathDef == <<"a", ".", "d", "e", "f">>
Paths == {PathDef}

\* a file of two blocks: one with its flag written twice, and one whose color
\* group strip('()') leaves with two components
FileFlags ==
    Quaked \o <<" ", "b", " ", "(", "1", " ", "0", " ", "0", ")", " ", "?",
                " ", "x", " ", "x", "\n">> \o CloseMarker
FileShort ==
    Quaked \o <<" ", "b", " ", "(", "(", " ", "1", " ", "0", ")", " ", "?",
                "\n">> \o CloseMarker
FileTexts == {FileFlags \o Nl \o FileShort}

\* what _open_file makes of each of these texts: the entities of the blocks
\* that decode
FileEntities == [text \in FileTexts |-> DecodeAll(FindAllBlocks(text))]

\* what the user may have typed into the entries when a button is pressed:
\* name and color as <<name, rgb>> (no name, both good, a malformed color),
\* the bounding-box entries as <<min, max>> (both "?", both triples, one
\* sided, a malformed min, a malformed max)
EntryRgb == <<"1", " ", "0", " ", "0">>
NameRgbEntries == {<< <<>>, EntryRgb>>, << <<"b">>, EntryRgb>>, << <<"b">>, <<"x">> >>}
EntryLow == <<"0", " ", "0", " ", "0">>
EntryHigh == <<"8", " ", "8", " ", "8">>
BBoxEntries ==
    {<< <<"?">>, <<"?">> >>, <<EntryLow, EntryHigh>>, << <<"?">>, EntryHigh>>,
     << <<"x">>, EntryHigh>>, <<EntryLow, <<"x">> >>}
InfoTexts == {<<"\n">>}
FlagEntries == {<<" ">>, <<"x">>}

NewEntityName ==
    <<"n", "e", "w", "_", "e", "n", "t", "i", "t", "y", "_", "n", "a", "m", "e">>

running == pc = "running"

\* _clear_entity_details
ClearEntityDetails ==
    /\ flags_listbox' = <<>>
    /\ selected_entity_index' = NoIndex

\* the items of flags_listbox after _load_entity_details(e) where it held
\* `before`: entity.rgb[2] raises IndexError before the flags are loaded
LoadEntityDetails(e, before) == IF Len(e.rgb) < 3 THEN before ELSE e.flags

\* list with the item at position k deleted
Delete(list, k) == SubSeq(list, 1, k - 1) \o SubSeq(list, k + 1, Len(list))

\* list.remove(x): the first occurrence goes
Remove(list, x) ==
    Delete(list, FirstIndex({k \in 1..Len(list) : list[k] = x}))

Contains(list, x) == \E k \in 1..Len(list) : list[k] = x

Min(a, b) == IF a <= b THEN a ELSE b

\* the entities es are what the file holds, or what a new file starts from
Remember(es) == baseline' = IF baseline = None THEN None ELSE <<es>>

\* _new_file; yes is the answer to askyesno
NewFile(yes) ==
    /\ running
    /\ IF unsaved_changes /\ ~yes
       THEN /\ messagebox' = "Unsaved Changes"
            /\ UNCHANGED <<entities, current_file_path, unsaved_changes,
                           selected_entity_index, curselection, flags_listbox,
                           baseline>>
       ELSE /\ messagebox' = IF unsaved_changes THEN "Unsaved Changes" ELSE ""
            /\ entities' = <<>>
            /\ current_file_path' = None
            /\ unsaved_changes' = FALSE
            /\ curselection' = NoIndex
            /\ ClearEntityDetails
            /\ Remember(entities')
    /\ UNCHANGED <<pc, codec_vars, file_vars, disk>>

\* the files whose text is known
Readable == {p \in DOMAIN disk : disk[p] # Rewritten}

\* _open_file; file_path is what askopenfilename returns, None when cancelled
OpenFile(yes, file_path) ==
    /\ running
    /\ IF (unsaved_changes /\ ~yes) \/ file_path = None
       THEN /\ messagebox' = IF unsaved_changes THEN "Unsaved Changes" ELSE ""
            /\ UNCHANGED <<entities, current_file_path, unsaved_changes,
                           selected_entity_index, curselection, flags_listbox,
                           baseline>>
       ELSE /\ messagebox' = IF unsaved_changes THEN "Unsaved Changes" ELSE ""
            /\ entities' = FileEntities[disk[file_path]]
            /\ current_file_path' = file_path
            /\ unsaved_changes' = FALSE
            /\ curselection' = NoIndex
            /\ ClearEntityDetails
            /\ Remember(entities')
    /\ UNCHANGED <<pc, codec_vars, file_vars, disk>>

\* to_def_string raises in the loop of _write_entities_to_file: self.rgb[k]
\* of a list of fewer than three components
WriteFails(es) == \E k \in 1..Len(es) : Len(es[k].rgb) < 3

\* _write_entities_to_file: the file is opened for writing and loses its
\* text whether the loop ends or raises
WriteEntitiesToFile(file_path) ==
    /\ disk' = [p \in DOMAIN disk \cup {file_path} |->
                   IF p = file_path THEN Rewritten ELSE disk[p]]
    /\ IF WriteFails(entities)
       THEN messagebox' = "Error" /\ UNCHANGED <<unsaved_changes, baseline>>
       ELSE /\ messagebox' = "Save Successful"
            /\ unsaved_changes' = FALSE
            /\ Remember(entities)

\* _save_file_as from the dialog on; file_path is what asksaveasfilename
\* returns, None when cancelled
SaveAs(file_path) ==
    IF file_path = None
    THEN /\ messagebox' = ""
         /\ UNCHANGED <<current_file_path, unsaved_changes, disk, baseline>>
    ELSE current_file_path' = file_path /\ WriteEntitiesToFile(file_path)

\* _save_file_as
SaveFileAs(file_path) ==
    /\ running
    /\ SaveAs(file_path)
    /\ UNCHANGED <<pc, codec_vars, file_vars, entities, selected_entity_index,
                   curselection, flags_listbox>>

\* _save_file
SaveFile(file_path) ==
    /\ running
    /\ IF current_file_path = None
       THEN SaveAs(file_path)
       ELSE WriteEntitiesToFile(current_file_path) /\ UNCHANGED current_file_path
    /\ UNCHANGED <<pc, codec_vars, file_vars, entities, selected_entity_index,
                   curselection, flags_listbox>>

\* _on_entity_listbox_select; sel is curselection() at the event, NoIndex
\* when the selection was lost to another widget
OnEntityListboxSelect(sel) ==
    /\ running
    /\ curselection' = sel
    /\ IF sel = NoIndex
       THEN IF entities = <<>>
            THEN ClearEntityDetails
            ELSE UNCHANGED <<selected_entity_index, flags_listbox>>
       ELSE IF sel # selected_entity_index
            THEN /\ selected_entity_index' = sel
                 /\ flags_listbox' = LoadEntityDetails(entities[sel], flags_listbox)
            ELSE UNCHANGED <<selected_entity_index, flags_listbox>>
    /\ messagebox' = ""
    /\ UNCHANGED <<pc, codec_vars, file_vars, entities, current_file_path,
                   unsaved_changes, disk, baseline>>

\* _add_new_entity
AddNewEntity ==
    /\ running
    /\ Len(entities) < MaxEntities
    /\ LET new_entity == QuakeEntity(NewEntityName, DefaultRgb, None, None, <<>>, <<>>)
       IN  /\ entities' = Append(entities, new_entity)
           /\ curselection' = Len(entities) + 1
           /\ selected_entity_index' = Len(entities) + 1
           /\ flags_listbox' = LoadEntityDetails(new_entity, flags_listbox)
    /\ unsaved_changes' = TRUE
    /\ messagebox' = ""
    /\ UNCHANGED <<pc, codec_vars, file_vars, current_file_path, disk,
                   baseline>>

\* _remove_selected_entity
RemoveSelectedEntity(yes) ==
    /\ running
    /\ IF curselection = NoIndex
       THEN /\ messagebox' = "No Selection"
            /\ UNCHANGED <<entities, unsaved_changes, selected_entity_index,
                           curselection, flags_listbox>>
       ELSE /\ messagebox' = "Confirm Removal"
            /\ IF ~yes
               THEN UNCHANGED <<entities, unsaved_changes, selected_entity_index,
                                curselection, flags_listbox>>
               ELSE LET index_to_remove == curselection
                        rest == Delete(entities, index_to_remove)
                        new_selection_index == Min(index_to_remove, Len(rest))
                    IN  /\ entities' = rest
                        /\ unsaved_changes' = TRUE
                        /\ curselection' = new_selection_index
                        /\ selected_entity_index' = new_selection_index
                        /\ flags_listbox' =
                               IF rest = <<>> THEN <<>>
                               ELSE LoadEntityDetails(rest[new_selection_index], <<>>)
    /\ UNCHANGED <<pc, codec_vars, file_vars, current_file_path, disk,
                   baseline>>

\* the try block of _apply_entity_changes on the entity e: the entity as the
\* block leaves it, and whether it ran to its end (ok) or raised ValueError;
\* an assignment made before the raise stays
ApplyChanges(e, name_entry, rgb_entry, bbox_min_entry, bbox_max_entry, info_text) ==
    LET named == [e EXCEPT !.name = Strip(name_entry)]
        rgb_parts == Split(Strip(rgb_entry))
        colored == [named EXCEPT !.rgb = Floats(rgb_parts)]
        bbox_min_str == Strip(bbox_min_entry)
        bbox_max_str == Strip(bbox_max_entry)
        bbox_min_parts == Split(bbox_min_str)
        bbox_max_parts == Split(bbox_max_str)
        with_min == [colored EXCEPT !.bbox_min = Ints(bbox_min_parts)]
        with_max == [with_min EXCEPT !.bbox_max = Ints(bbox_max_parts)]
        without == [colored EXCEPT !.bbox_min = None, !.bbox_max = None]
        Done(x) == [entity |-> [x EXCEPT !.info = Strip(info_text)], ok |-> TRUE]
        Raised(x) == [entity |-> x, ok |-> FALSE]
    IN  IF named.name = <<>> THEN Raised(named)
        ELSE IF ~AllFloats(rgb_parts) \/ Len(rgb_parts) # 3 THEN Raised(named)
        ELSE IF (bbox_min_str = <<"?">>) # (bbox_max_str = <<"?">>)
        THEN Raised(colored)
        ELSE IF bbox_min_str = <<"?">> /\ bbox_max_str = <<"?">> THEN Done(without)
        ELSE IF ~AllInts(bbox_min_parts) \/ Len(bbox_min_parts) # 3
        THEN Raised(colored)
        ELSE IF ~AllInts(bbox_max_parts) \/ Len(bbox_max_parts) # 3
        THEN Raised(with_min)
        ELSE Done(with_max)

\* _apply_entity_changes
ApplyEntityChanges(name_entry, rgb_entry, bbox_min_entry, bbox_max_entry, info_text) ==
    /\ running
    /\ IF selected_entity_index = NoIndex
       THEN /\ messagebox' = "No Entity Selected"
            /\ UNCHANGED <<entities, unsaved_changes, curselection>>
       ELSE LET applied == ApplyChanges(entities[selected_entity_index],
                                        name_entry, rgb_entry, bbox_min_entry,
                                        bbox_max_entry, info_text)
            IN  /\ entities' = [entities EXCEPT ![selected_entity_index] =
                                                     applied.entity]
                /\ IF applied.ok
                   THEN /\ unsaved_changes' = TRUE
                        /\ curselection' = selected_entity_index
                        /\ messagebox' = "Changes Applied"
                   ELSE /\ messagebox' = "Input Error"
                        /\ UNCHANGED <<unsaved_changes, curselection>>
    /\ UNCHANGED <<pc, codec_vars, file_vars, current_file_path,
                   selected_entity_index, flags_listbox, disk, baseline>>

\* _add_flag
AddFlag(new_flag_entry) ==
    /\ running
    /\ LET new_flag == Strip(new_flag_entry) IN
       IF selected_entity_index = NoIndex
       THEN /\ messagebox' = "No Entity Selected"
            /\ UNCHANGED <<entities, flags_listbox, unsaved_changes>>
       ELSE IF new_flag = <<>>
       THEN /\ messagebox' = "Empty Flag"
            /\ UNCHANGED <<entities, flags_listbox, unsaved_changes>>
       ELSE IF Contains(entities[selected_entity_index].flags, new_flag)
       THEN /\ messagebox' = "Duplicate Flag"
            /\ UNCHANGED <<entities, flags_listbox, unsaved_changes>>
       ELSE /\ entities' = [entities EXCEPT ![selected_entity_index].flags =
                                                 Append(@, new_flag)]
            /\ flags_listbox' = Append(flags_listbox, new_flag)
            /\ unsaved_changes' = TRUE
            /\ messagebox' = ""
    /\ UNCHANGED <<pc, codec_vars, file_vars, current_file_path,
                   selected_entity_index, curselection, disk, baseline>>

\* _remove_flag; sel is flags_listbox.curselection(), NoIndex when empty
RemoveFlag(sel) ==
    /\ running
    /\ IF selected_entity_index = NoIndex
       THEN /\ messagebox' = "No Entity Selected"
            /\ UNCHANGED <<entities, flags_listbox, unsaved_changes>>
       ELSE IF sel = NoIndex
       THEN /\ messagebox' = "No Flag Selected"
            /\ UNCHANGED <<entities, flags_listbox, unsaved_changes>>
       ELSE LET flag_to_remove == flags_listbox[sel] IN
            IF Contains(entities[selected_entity_index].flags, flag_to_remove)
            THEN /\ entities' = [entities EXCEPT ![selected_entity_index].flags =
                                                     Remove(@, flag_to_remove)]
                 /\ flags_listbox' = Delete(flags_listbox, sel)
                 /\ unsaved_changes' = TRUE
                 /\ messagebox' = ""
            ELSE /\ messagebox' = "Error"
                 /\ UNCHANGED <<entities, flags_listbox, unsaved_changes>>
    /\ UNCHANGED <<pc, codec_vars, file_vars, current_file_path,
                   selected_entity_index, curselection, disk, baseline>>

\* _on_exit
OnExit(yes) ==
    /\ running
    /\ messagebox' = IF unsaved_changes THEN "Unsaved Changes" ELSE ""
    /\ pc' = IF unsaved_changes /\ ~yes THEN pc ELSE "exited"
    /\ UNCHANGED <<codec_vars, file_vars, entities, current_file_path,
                   unsaved_changes, selected_entity_index, curselection,
                   flags_listbox, disk, baseline>>

\* the editor after start, with one file to open
Init ==
    /\ pc = "running"
    /\ NoFile
    /\ NewApp
    /\ disk \in [Paths -> FileTexts]
    /\ baseline = None
    /\ def_block = NotRun /\ entity = NotRun
    /\ def_string = NotRun /\ reparsed = NotRun

Next ==
    \/ \E yes \in BOOLEAN : NewFile(yes)
    \/ \E yes \in BOOLEAN, file_path \in Readable \cup {None} :
           OpenFile(yes, file_path)
    \/ \E file_path \in Paths \cup {None} : SaveFile(file_path)
    \/ \E file_path \in Paths \cup {None} : SaveFileAs(file_path)
    \/ \E sel \in 0..Len(entities) : OnEntityListboxSelect(sel)
    \/ AddNewEntity
    \/ \E yes \in BOOLEAN : RemoveSelectedEntity(yes)
    \/ \E name_rgb \in NameRgbEntries, bbox_entries \in BBoxEntries,
          info_text \in InfoTexts :
           ApplyEntityChanges(name_rgb[1], name_rgb[2], bbox_entries[1],
                              bbox_entries[2], info_text)
    \/ \E new_flag_entry \in FlagEntries : AddFlag(new_flag_entry)
    \/ \E sel \in 0..Len(flags_listbox) : RemoveFlag(sel)
    \/ \E yes \in BOOLEAN : OnExit(yes)

Spec == Init /\ [][Next]_vars

\* the editor used only to add entities and to apply changes to them; an
\* entity other than the one just added is reached through the list
NextMutation ==
    \/ AddNewEntity
    \/ \E sel \in 1..Len(entities) : OnEntityListboxSelect(sel)
    \/ \E name_rgb \in NameRgbEntries, bbox_entries \in BBoxEntries,
          info_text \in InfoTexts :
           ApplyEntityChanges(name_rgb[1], name_rgb[2], bbox_entries[1],
                              bbox_entries[2], info_text)

SpecMutation == Init /\ [][NextMutation]_vars

\* the editor with the baseline followed: every handler that changes the
\* entities or the file, with one accepted and one rejected set of entries
\* for _apply_entity_changes
InitDirty ==
    /\ pc = "running"
    /\ NoFile
    /\ NewApp
    /\ disk \in [Paths -> FileTexts]
    /\ baseline = <<entities>>
    /\ def_block = NotRun /\ entity = NotRun
    /\ def_string = NotRun /\ reparsed = NotRun

NoBBoxEntries == << <<"?">>, <<"?">> >>

NextDirty ==
    \/ \E yes \in BOOLEAN : NewFile(yes)
    \/ \E yes \in BOOLEAN, file_path \in Readable : OpenFile(yes, file_path)
    \/ \E file_path \in Paths : SaveFile(file_path)
    \/ \E sel \in 1..Len(entities) : OnEntityListboxSelect(sel)
    \/ AddNewEntity
    \/ RemoveSelectedEntity(TRUE)
    \/ \E name_entry \in {<<>>, <<"b">>}, info_text \in InfoTexts :
           ApplyEntityChanges(name_entry, EntryRgb, NoBBoxEntries[1],
                              NoBBoxEntries[2], info_text)
    \/ \E new_flag_entry \in FlagEntries : AddFlag(new_flag_entry)
    \/ \E sel \in 1..Len(flags_listbox) : RemoveFlag(sel)

SpecDirty == InitDirty /\ [][NextDirty]_vars

----------------------------------------------------------------------------
(* Properties of from_def_string, checked under SpecCodec *)

\* the list `parts` and the index `i` that from_def_string computes for def_block
PartsOf(block) == FindAllParts(FirstLine(BlockContent(block)))
Decoded == pc # "block" /\ entity # None
Rest(seq, k) == SubSeq(seq, k + 1, Len(seq))

\* the text between the keyword and the close marker of a wrapped block
Unwrap(block) ==
    SubSeq(block, Len(Quaked) + 1, Len(block) - Len(CloseMarker))

\* C3 (as claimed): every token from index i on is a flag, in order, none
\* omitted, whatever its text.
C3_FlagsByPosition ==
    Decoded =>
        entity.flags = Rest(PartsOf(def_block), ParseHeader(PartsOf(def_block)).i)

\* C6: decode fails exactly when the block has no token at all, that is when
\* the text of the block holds nothing but whitespace; any header with a
\* token yields an entity whose name is a non-empty text.
C6_FailsIffNoToken ==
    pc # "block" =>
        /\ entity = None <=>
              \A k \in 1..Len(Unwrap(def_block)) : Unwrap(def_block)[k] \in Whitespace
        /\ entity # None => entity.name # <<>>

C6_Witness ==
    /\ pc = "decoded"
    /\ entity = None
    /\ Find(def_block, "\n") # 0

\* a parenthesized group of exactly three whitespace-separated items
Inner(tok) == Split(SubSeq(tok, 2, Len(tok) - 1))
IsGroupOf3(tok) ==
    Len(tok) >= 2 /\ tok[1] = "(" /\ tok[Len(tok)] = ")" /\ Len(Inner(tok)) = 3
IsIntTriple(tok) == IsGroupOf3(tok) /\ \A k \in 1..3 : IsBBoxNumber(Inner(tok)[k])
IsColorToken(tok) == IsGroupOf3(tok) /\ \A k \in 1..3 : IsFloatLiteral(Inner(tok)[k])

\* C7 (as claimed): the bounding box is read from the first token after the
\* color; "?" is consumed as Absent; an integer triple is min, and the next
\* token is max only if it is an integer triple too, otherwise max stays
\* unset and that token is the first flag; a candidate of neither shape
\* leaves the box Absent and is itself the first flag.
C7_BBoxDecoding ==
    Decoded =>
        LET parts == PartsOf(def_block)
            c == IF Len(parts) >= 2 /\ RgbParsed(parts) THEN 2 ELSE 1
            cand == parts[c + 1]
            next == parts[c + 2]
        IN  IF c >= Len(parts)
            THEN entity.bbox_min = None /\ entity.bbox_max = None
            ELSE IF cand = <<"?">>
            THEN /\ entity.bbox_min = None /\ entity.bbox_max = None
                 /\ Len(entity.flags) <= Len(parts) - (c + 1)
            ELSE IF IsIntTriple(cand)
            THEN /\ entity.bbox_min = Ints(Inner(cand))
                 /\ IF c + 1 < Len(parts) /\ IsIntTriple(next)
                    THEN /\ entity.bbox_max = Ints(Inner(next))
                         /\ Len(entity.flags) <= Len(parts) - (c + 2)
                    ELSE /\ entity.bbox_max = None
                         /\ c + 1 < Len(parts) =>
                               entity.flags # <<>> /\ entity.flags[1] = next
            ELSE /\ entity.bbox_min = None /\ entity.bbox_max = None
                 /\ entity.flags # <<>> /\ entity.flags[1] = cand

\* C8 (as claimed): token 1 is the color exactly when it is a parenthesized
\* group of 3 numeric literals; otherwise the color is the default and the
\* token goes on to the bounding-box step or becomes the first flag.
C8_ColorDecoding ==
    Decoded =>
        LET parts == PartsOf(def_block) IN
        IF Len(parts) >= 2 /\ IsColorToken(parts[2])
        THEN entity.rgb = Floats(Inner(parts[2]))
        ELSE /\ entity.rgb = DefaultRgb
             /\ Len(parts) >= 2 =>
                   \/ parts[2] = <<"?">>
                   \/ entity.flags # <<>> /\ entity.flags[1] = parts[2]

----------------------------------------------------------------------------
(* Round trips *)

BothOrNeither(r) == (r.bbox_min = None) <=> (r.bbox_max = None)
BothPresent(r) == r.bbox_min # None /\ r.bbox_max # None

\* a token that opens a parenthesis it never closes
Unterminated(tok) == tok # <<>> /\ tok[1] = "(" /\ Find(tok, ")") = 0
HasClose(text) == IndexOf(text, CloseMarker, 1) # 0

\* the value read back from the one-decimal rendering of v
RoundTenth(v) == Normal(IF v[1] < 0 THEN 0 - Tenths(v) ELSE Tenths(v), 1)
RgbRead(r) == [k \in 1..3 |-> RoundTenth(r.rgb[k])]

\* the texts of the color and bounding-box fields of the encoded header
FieldTexts(r) ==
    {Triple(FloatStr1(r.rgb[1]), FloatStr1(r.rgb[2]), FloatStr1(r.rgb[3]))}
        \cup (IF BothPresent(r)
              THEN {Triple(IntStr(r.bbox_min[1]), IntStr(r.bbox_min[2]), IntStr(r.bbox_min[3])),
                    Triple(IntStr(r.bbox_max[1]), IntStr(r.bbox_max[2]), IntStr(r.bbox_max[3]))}
              ELSE {<<"?">>})

C1_RoundTrip ==
    pc = "reparsed" /\ def_block = NotRun /\ BothOrNeither(entity) =>
        reparsed = entity

\* the extra conditions under which the tokens of the encoded entity are
\* read back as the same tokens
PlainTokens(r) ==
    /\ r.name[1] # "(" /\ ~HasClose(r.name)
    /\ \A k \in 1..Len(r.flags) : r.flags[k][1] # "(" /\ ~HasClose(r.flags[k])
    /\ ~HasClose(r.info)

\* C1 (amended): for an entity that satisfies the data-model constraints,
\* whose name and flags do not begin with "(" and whose texts hold no close
\* marker, decode(encode(r)) equals r in name, bounding box and description;
\* its color is r's read back from one decimal; its flags are r's in order,
\* without the flags "?" when the bounding box is absent.
C1_RoundTripUpToRendering ==
    pc = "reparsed" /\ def_block = NotRun /\ BothOrNeither(entity)
                    /\ PlainTokens(entity) =>
        /\ reparsed # None
        /\ reparsed.name = entity.name
        /\ reparsed.bbox_min = entity.bbox_min
        /\ reparsed.bbox_max = entity.bbox_max
        /\ reparsed.info = entity.info
        /\ reparsed.rgb = RgbRead(entity)
        /\ reparsed.flags =
              SelectSeq(entity.flags,
                        LAMBDA f : BothPresent(entity) \/ f # <<"?">>)

C1_Witness ==
    /\ pc = "reparsed" /\ def_block = NotRun
    /\ BothOrNeither(entity) /\ PlainTokens(entity)
    /\ entity.rgb = RgbTenths
    /\ entity.bbox_min = BoxLow
    /\ Len(entity.flags) = MaxFlags
    /\ entity.info # <<>>
    /\ reparsed = entity

\* "(-16 -16 0) (16 16 32)": the field of the box BoxLow, BoxHigh
PairText ==
    <<"(", "-", "1", "6", " ", "-", "1", "6", " ", "0", ")", " ",
      "(", "1", "6", " ", "1", "6", " ", "3", "2", ")">>

\* C9: encode returns a text for every entity; after the name and the color
\* its header line holds one bounding-box field, the pair of triples when
\* both corners are present and the single "?" in every other state, and
\* then the flags, if any.
C9_BBoxField ==
    pc # "decoded" /\ def_block = NotRun =>
        /\ def_string # IndexError
        /\ LET line == SubSeq(def_string, 1, Find(def_string, "\n") - 1)
               head == Quaked \o Sp \o entity.name \o Sp
                         \o Triple(FloatStr1(entity.rgb[1]), FloatStr1(entity.rgb[2]),
                                   FloatStr1(entity.rgb[3])) \o Sp
               field == IF BothPresent(entity) THEN PairText ELSE <<"?">>
           IN  /\ SubSeq(line, 1, Len(head)) = head
               /\ Rest(line, Len(head)) =
                     field \o (IF entity.flags = <<>> THEN <<>>
                               ELSE Sp \o Join(entity.flags, Sp))

C9_Witness ==
    /\ pc = "encoded" /\ def_block = NotRun
    /\ entity.bbox_min # None /\ entity.bbox_max = None
    /\ entity.flags # <<>>

----------------------------------------------------------------------------
(* Properties of the extraction, checked under SpecExtract *)

Opened == pc = "opened"
NBlocks == (Len(layout) - 1) \div 2
OpenAt(t, j) == StartsAt(t, j, Quaked)
CloseAt(t, j) == StartsAt(t, j, CloseMarker)

\* a match can start at j: open marker, keyword, whitespace, and a close
\* marker somewhere after them
CanStart(t, j) ==
    /\ OpenAt(t, j)
    /\ j + Len(Quaked) <= Len(t)
    /\ t[j + Len(Quaked)] \in Whitespace
    /\ \E c \in (j + Len(Quaked) + 1)..Len(t) : CloseAt(t, c)

\* first position after the match k - 1 of the matches sp
After(sp, k) == IF k = 1 THEN 1 ELSE sp[k - 1][2] + Len(CloseMarker)

NoOverlap(sp) == \A k \in 1..Len(sp) : After(sp, k) <= sp[k][1]

\* C4 (as claimed): extracted blocks never overlap, a close marker ends the
\* block of the nearest open marker and keyword before it, and no extracted
\* block text contains an open marker and keyword.
C4_NearestOpen ==
    Opened =>
        LET sp == FindAllSpans(content, 1) IN
        /\ NoOverlap(sp)
        /\ \A k \in 1..Len(sp) :
               \A j \in (sp[k][1] + 1)..sp[k][2] : ~OpenAt(content, j)
        /\ \A k \in 1..Len(blocks) : IndexOf(blocks[k], Quaked, 1) = 0

\* C4 (as the code has it): extracted blocks never overlap; each block starts
\* at the leftmost open marker and keyword, followed by whitespace and later
\* by a close marker, that lies after the block before it, and ends at the
\* first close marker after that keyword and whitespace, so a second open
\* marker and keyword before that close marker is part of the block's text;
\* the text is the region between keyword and close marker without its outer
\* whitespace, and from_def_string reads the same text back from the block
\* that _open_file rebuilds around it.
C4_LeftmostOpen ==
    Opened =>
        LET sp == FindAllSpans(content, 1) IN
        /\ NoOverlap(sp)
        /\ Len(blocks) = Len(sp)
        /\ \A k \in 1..Len(sp) :
               LET s == sp[k][1]
                   q == sp[k][2]
               IN  /\ CanStart(content, s)
                   /\ \A j \in After(sp, k)..(s - 1) : ~CanStart(content, j)
                   /\ q >= s + Len(Quaked) + 1
                   /\ CloseAt(content, q)
                   /\ \A j \in (s + Len(Quaked) + 1)..(q - 1) : ~CloseAt(content, j)
                   /\ blocks[k] = Strip(SubSeq(content, s + Len(Quaked), q - 1))
                   /\ BlockContent(Wrap(Strip(blocks[k]))) = blocks[k]
        /\ \A j \in After(sp, Len(sp) + 1)..Len(content) : ~CanStart(content, j)

\* a block was extracted that has a second open marker and keyword inside
C4_Witness ==
    /\ Opened
    /\ \E k \in 1..Len(blocks) : IndexOf(blocks[k], Quaked, 1) # 0

\* C5: a file laid out as n blocks with other text before, between and after
\* them gives exactly n extracted blocks, the k-th being the text of the
\* k-th block of the file; a file without blocks gives the empty list.
C5_CountAndOrder ==
    Opened =>
        /\ Len(blocks) = NBlocks
        /\ \A k \in 1..NBlocks : blocks[k] = Strip(Unwrap(layout[2 * k]))
        /\ (NBlocks = 0 => blocks = <<>>)

\* two blocks were extracted from between an ordinary comment, a text that
\* continues the first close marker, and a comment with a longer keyword
C5_Witness ==
    /\ Opened
    /\ Len(blocks) = 2
    /\ layout[1] = JunkComment
    /\ layout[3] = JunkTail
    /\ layout[5] = JunkKeyword

----------------------------------------------------------------------------
(* Properties of the editor's handlers, checked under Spec *)

\* the message boxes of a rejected _apply_entity_changes and _add_flag
Rejections == {"Input Error", "Duplicate Flag", "Empty Flag"}

\* C10 (as claimed): a handler step that ends in the message box of a
\* rejected apply-changes (Input Error) or of a rejected add-flag (Duplicate
\* Flag, Empty Flag) leaves every entity as it was, in every field.
C10_RejectedAtomic ==
    [][messagebox' \in Rejections => entities' = entities]_vars

----------------------------------------------------------------------------
(* Properties of the records under add-entity and apply-changes, checked
   under SpecMutation *)

\* C11 (as claimed): after any sequence of add-entity and apply-changes
\* steps, accepted or rejected, from newly constructed entities, every entity
\* of the list has bbox_min and bbox_max both set or both None.
C11_BBoxBothOrNeither ==
    \A k \in 1..Len(entities) : BothOrNeither(entities[k])

----------------------------------------------------------------------------
(* Properties of the flags, checked under Spec *)

\* no token twice in the list
Unique(flags) ==
    \A j, k \in 1..Len(flags) : flags[j] = flags[k] => j = k

FlagsUnique == \A k \in 1..Len(entities) : Unique(entities[k].flags)

\* a step of _add_flag or _remove_flag that changed the flags of the
\* selected entity: the list keeps its length and the selection stays
FlagStep ==
    /\ selected_entity_index # NoIndex
    /\ selected_entity_index' = selected_entity_index
    /\ Len(entities') = Len(entities)
    /\ entities'[selected_entity_index].flags # entities[selected_entity_index].flags

\* after is before with one token appended, or with one token taken out and
\* the others left in their order
OrderKept(before, after) ==
    \/ Len(after) = Len(before) + 1 /\ SubSeq(after, 1, Len(before)) = before
    \/ \E j \in 1..Len(before) : after = Delete(before, j)

\* C12 (as claimed): in every reachable state no entity's flags hold the
\* same token twice, and every add-flag or remove-flag step leaves the flags
\* that remain in their insertion order.
C12_FlagsUniqueInOrder ==
    /\ []FlagsUnique
    /\ [][FlagStep => OrderKept(entities[selected_entity_index].flags,
                                entities'[selected_entity_index].flags)]_vars

----------------------------------------------------------------------------
(* Properties of unsaved_changes, checked under SpecDirty *)

\* the entities are not what they were at the last new-file, successful
\* open or successful save
Differs == baseline # <<entities>>

\* C13 (as claimed): whenever the entities differ in any field from what they
\* were at the last new-file, successful open or successful save,
\* unsaved_changes is true.
C13_DirtyWhenDiffers == Differs => unsaved_changes

============================================================================
